---- MODULE Spec2Model ----
(***************************************************************************)
(* A model of the candidate-selection engine and optimization loop of      *)
(* pc_smac: PCSMBO.run / PCSMBO.choose_next (pc_smbo.py) and               *)
(* CachedSelectConfiguration.run with its batch sampler                    *)
(* (pc_smbo/select_configuration.py).                                      *)
(*                                                                         *)
(* External collaborators (configuration space sampler, surrogate model,   *)
(* acquisition function, local search, intensifier, run history, stats)    *)
(* are modelled by their interface: every value they return is drawn       *)
(* nondeterministically from a small set.                                  *)
(***************************************************************************)
EXTENDS Integers, Sequences, FiniteSets, TLC

\* ------------------------------------------------------------------ bounds

\* largest num_configurations_by_random_search_sorted (run passes 100)
MaxPool == 1

\* largest num_configurations_by_local_search (run passes 10)
MaxSeeds == 2

\* most candidates asked for in one round (pool and local search together)
MaxCandidates == 3

\* most entries a run history holds
MaxHist == 2

\* the budget is exhausted at the latest at the end of this round
MaxRounds == 2

\* the retry bound tested by `if i > 10` in the batch sampler
RetryBound == 10

\* leaf sizes of a whole cache-aware selection round
MaxRoundLeaf == 2

\* most leaves asked for where the batch sampler is entered directly
MaxBatches == 2

\* <<num_points, leaf_size>> where the batch sampler is entered directly: the
\* small ones, and two leaves of the smallest size for which `i > 10` can be true
\* inside `while i < leaf_size` and of the smallest size for which two leaves cut
\* short leave the interleave without candidates.
MaxSmallLeaf == 3
SamplerCalls ==
    ((1..MaxBatches) \X (1..MaxSmallLeaf))
        \cup {<<2, RetryBound + 2>>, <<2, 2 * RetryBound + 3>>}

\* consecutive failed splices that are counted (one more than RetryBound)
MaxFails == RetryBound + 1

\* most cached records / candidates handed to the pure functions
MaxRecords == 2

MaxSortLen == 3

\* length of the seed that determines the stream of the random generator
MaxSeedBits == 3

\* the EMA statistic is a float: it is counted in steps of 1/EmaUnit, up to MaxEma steps
EmaUnit == 4
MaxEma == 72

AcqValues == {0, 1}
RndValues == {0, 1}
Costs == {1, 2}
Vals == {0, 1}
DiscountValues == {0, 1, 2}

Min(a, b) == IF a <= b THEN a ELSE b
Max(a, b) == IF a >= b THEN a ELSE b
Range(s) == {s[x] : x \in DOMAIN s}

\* ------------------------------------------------- the configuration space

\* A hyperparameter key "step:name" is the sequence of its ':'-separated parts.
KeyA == <<"pre", "a">>
KeyB == <<"clf", "b">>
Keys == {KeyA, KeyB}

constant_pipeline_steps == {"pre"}
variable_pipeline_steps == {"clf"}

\* The space has one forbidden clause across the two steps (pre:a = clf:b).
IsValidConfig(values) ==
    /\ DOMAIN values = Keys
    /\ values[KeyA] # values[KeyB]

ValidConfigs == {c \in [Keys -> Vals] : IsValidConfig(c)}

\* A Configuration object: its values and its origin attribute.
Conf(values, origin) == [values |-> values, origin |-> origin]

None == [values |-> << >>, origin |-> "None"]

SetOrigin(configs, origin) ==
    [x \in DOMAIN configs |-> Conf(configs[x].values, origin)]

\* ------------------------------------------------------------- run history

\* An entry of the run history: an evaluated configuration and its cost.
CostOf(values) == 1 + values[KeyA]

RunHistories ==
    {rh \in UNION {[1..n -> [config : ValidConfigs, cost : Costs]] : n \in 0..MaxHist} :
        /\ \A x, y \in DOMAIN rh : x # y => rh[x].config # rh[y].config
        /\ \A x \in DOMAIN rh : rh[x].cost = CostOf(rh[x].config)}

rh_empty(rh) == Len(rh) = 0

rh_get_cost(rh, config) ==
    LET x == CHOOSE y \in DOMAIN rh : rh[y].config = config.values IN rh[x].cost

rh_get_all_configs(rh) == [x \in DOMAIN rh |-> Conf(rh[x].config, "")]

\* The incumbent, when set and the history is not empty, has a recorded cost.
Recorded(rh, inc) ==
    rh_empty(rh) \/ inc = None \/ \E x \in DOMAIN rh : rh[x].config = inc.values

\* ------------------------------------------------------ caching discounts

\* A faulty reduction, which grants the discount as soon as one key agrees.
_caching_reduction_any(config, cached_config) ==
    LET r == {key \in DOMAIN cached_config[1] :
                 config.values[key] # cached_config[1][key]}
    IN  IF r # DOMAIN cached_config[1] THEN cached_config[2] ELSE 0

_caching_reduction(config, cached_config) ==
    LET r == {key \in DOMAIN cached_config[1] :
                 config.values[key] # cached_config[1][key]}
    IN  IF r = {} THEN cached_config[2] ELSE 0

RECURSIVE DiscountLoop(_, _, _, _)
DiscountLoop(config, cached_configs, k, discount) ==
    IF k > Len(cached_configs) THEN discount
    ELSE DiscountLoop(config, cached_configs, k + 1,
                      discount + _caching_reduction(config, cached_configs[k]))

_compute_caching_discounts(configs, cached_configs) ==
    [x \in DOMAIN configs |-> DiscountLoop(configs[x], cached_configs, 1, 0)]

\* ------------------------------------------------------ ranked sort

\* A faulty order, which ignores the random numbers.
LexLessNoTie(acq, rnd, x, y) == acq[x] < acq[y]

\* np.lexsort((random, acq_values)): acq_values is the primary key.
LexLess(acq, rnd, x, y) ==
    \/ acq[x] < acq[y]
    \/ acq[x] = acq[y] /\ rnd[x] < rnd[y]

RECURSIVE LexInsert(_, _, _, _)
LexInsert(sorted, acq, rnd, x) ==
    IF sorted = << >> THEN <<x>>
    ELSE IF LexLess(acq, rnd, x, Head(sorted)) THEN <<x>> \o sorted
    ELSE <<Head(sorted)>> \o LexInsert(Tail(sorted), acq, rnd, x)

RECURSIVE LexSortFrom(_, _, _, _, _)
LexSortFrom(sorted, acq, rnd, x, n) ==
    IF x > n THEN sorted
    ELSE LexSortFrom(LexInsert(sorted, acq, rnd, x), acq, rnd, x + 1, n)

lexsort(acq, rnd) == LexSortFrom(<< >>, acq, rnd, 1, Len(acq))

Reverse(s) == [x \in 1..Len(s) |-> s[Len(s) + 1 - x]]

\* [(acq_values[ind][0], configs[ind]) for ind in indices[::-1]]
_get_acq_values_sorted(configs, acq, rnd) ==
    LET indices == Reverse(lexsort(acq, rnd))
    IN  [x \in 1..Len(indices) |->
            [acq |-> acq[indices[x]], config |-> configs[indices[x]]]]

\* list.sort(reverse=True, key=lambda x: x[0]): stable, descending
RECURSIVE InsertDesc(_, _)
InsertDesc(sorted, e) ==
    IF sorted = << >> THEN <<e>>
    ELSE IF Head(sorted).acq >= e.acq THEN <<Head(sorted)>> \o InsertDesc(Tail(sorted), e)
    ELSE <<e>> \o sorted

RECURSIVE SortDescFrom(_, _, _)
SortDescFrom(sorted, s, x) ==
    IF x > Len(s) THEN sorted
    ELSE SortDescFrom(InsertDesc(sorted, s[x]), s, x + 1)

SortDesc(s) == SortDescFrom(<< >>, s, 1)

\* s[:k] of a Python list
PySliceTo(s, k) ==
    LET n == IF k >= 0 THEN Min(k, Len(s)) ELSE Max(0, Len(s) + k)
    IN  SubSeq(s, 1, n)

Configs(pairs) == [x \in DOMAIN pairs |-> pairs[x].config]


\* python: list(itertools.chain(*zip(a, b)))
ZipChain(a, b) ==
    LET n == Min(Len(a), Len(b))
    IN  [x \in 1..(2 * n) |-> IF x % 2 = 1 THEN a[(x + 1) \div 2] ELSE b[x \div 2]]

Perms(n) == {p \in [1..n -> 1..n] : \A x, y \in 1..n : x # y => p[x] # p[y]}

\* ---------------------------------------------------------------- state

VARIABLES
    pc,            \* position in run / in the selection round
    variant,       \* "plain": PCSMBO.run; "cached": CachedSelectConfiguration.run
    shared_model,  \* scenario.shared_model
    incumbent, runhistory, iteration,
    num_rs,        \* num_configurations_by_random_search_sorted
    num_ls,        \* num_configurations_by_local_search
    leaf_size,     \* random_leaf_size
    XY,            \* rows of the training data made by rh2EPM.transform
    model,         \* the surrogate model: the round and data it was trained on
    acq_update,    \* what acquisition_func.update last received
    rs_sorted,     \* next_configs_by_random_search_sorted
    init_points,   \* the seeds handed to _get_next_by_local_search
    ls_configs,    \* next_configs_by_local_search
    acq_list,      \* next_configs_by_acq_value (configurations only)
    rs_list,       \* next_configs_by_random_search
    challengers,
    leaf_idx, batch, i, rand_configs,   \* locals of the batch sampler
    result,        \* what run returned, or the error it raised
    \* history variables
    round,         \* rounds started so far
    scored,        \* the acquisition function was evaluated in this round
    nSelect, nIntensify, budgetLog,
    passedInc,     \* the incumbent handed to intensify in this round
    lastOut,       \* the incumbent the initial design or intensify last returned
    events,        \* the calls run has made so far, in order
    \* the clock of PCSMBO.run
    now,           \* what time.time() returns
    start_time,
    spent,         \* the time the transform and the selection of this round took
    time_bound,    \* the time_bound intensify was last given
    tick,          \* the most the clock advances during one call
    consecFails,   \* consecutive failed splices in the current leaf
    breakFails,    \* consecutive failures seen when a leaf was last cut short
    leafOf,        \* per entry of rand_configs / rs_list: the leaf it was built in
    \* argument and result of a pure function called on its own
    fin, fout

loopVars == <<variant, shared_model, incumbent, runhistory, iteration, result>>
paramVars == <<num_rs, num_ls, leaf_size>>
selVars == <<XY, model, acq_update, rs_sorted, init_points, ls_configs, acq_list,
             rs_list, challengers, scored>>
batchVars == <<leaf_idx, batch, i, rand_configs, consecFails, breakFails, leafOf>>
countVars == <<round, nSelect, nIntensify, budgetLog, passedInc, lastOut>>
histVars == <<countVars, events>>
fnVars == <<fin, fout>>
clockVars == <<now, start_time, spent, time_bound, tick>>

vars == <<pc, loopVars, paramVars, selVars, batchVars, histVars, fnVars, clockVars>>

NoUpdate == [round |-> 0, eta |-> 0, values |-> << >>]
NoModel == [round |-> 0, data |-> 0]

InitSel ==
    /\ XY = 0 /\ model = NoModel /\ acq_update = NoUpdate
    /\ rs_sorted = << >> /\ init_points = << >> /\ ls_configs = << >>
    /\ acq_list = << >> /\ rs_list = << >> /\ challengers = << >>
    /\ scored = FALSE

InitBatch ==
    /\ leaf_idx = 0 /\ batch = << >> /\ i = 0 /\ rand_configs = << >>
    /\ consecFails = 0 /\ breakFails = 0 /\ leafOf = << >>

InitHist ==
    /\ nSelect = 0 /\ nIntensify = 0 /\ budgetLog = << >>
    /\ passedInc = None /\ lastOut = None
    /\ events = << >>

InitFn == fin = << >> /\ fout = << >>

InitClock == now = 0 /\ start_time = 0 /\ spent = 0 /\ time_bound = 0

\* PCSMBO.__init__, then run is entered
InitPlain ==
    /\ variant = "plain" /\ pc = "start"
    /\ shared_model \in BOOLEAN
    /\ incumbent = None /\ runhistory = << >> /\ iteration = 0 /\ result = None
    /\ num_rs \in 1..MaxPool /\ num_ls \in 0..MaxSeeds /\ leaf_size = 1
    /\ num_rs + num_ls <= MaxCandidates
    /\ round = 0
    /\ InitSel /\ InitBatch /\ InitHist /\ InitFn /\ InitClock
    \* the clock is watched in runs with the smallest selection; in the others
    \* every call returns before the clock advances
    /\ tick \in {0, 1}
    /\ tick = 1 => num_rs = 1 /\ num_ls = 1

\* CachedSelectConfiguration.run is entered with its arguments
InitCached ==
    /\ variant = "cached" /\ pc = "train"
    /\ shared_model = FALSE
    /\ incumbent \in {None} \cup {Conf(v, "") : v \in ValidConfigs}
    /\ runhistory \in RunHistories
    /\ Recorded(runhistory, incumbent)
    /\ iteration = 0 /\ result = None
    /\ num_rs \in 1..MaxPool /\ num_ls \in 0..MaxSeeds /\ leaf_size \in 1..MaxRoundLeaf
    /\ num_rs + num_ls <= MaxCandidates
    /\ round = 1
    /\ InitSel /\ InitBatch /\ InitHist /\ InitFn
    /\ InitClock /\ tick = 0

\* The exploitation lists handed to the sampler where it is entered directly
ExploitLists(n) == [1..n -> {Conf(v, "Random Search (Sorted)") : v \in ValidConfigs}]

\* CachedSelectConfiguration.run at its call of _get_next_by_random_search_batch
\* (num_points = len(next_configs_by_acq_value), leaf_size = random_leaf_size)
InitBatchCall ==
    /\ variant = "batch" /\ pc = "b_for"
    /\ shared_model = FALSE
    /\ incumbent = None /\ runhistory = << >> /\ iteration = 0 /\ result = None
    /\ num_rs = 0 /\ num_ls = 0
    /\ round = 1
    /\ XY = 0 /\ model = NoModel /\ acq_update = NoUpdate
    /\ rs_sorted = << >> /\ init_points = << >> /\ ls_configs = << >>
    /\ \E call \in SamplerCalls :
          /\ leaf_size = call[2]
          /\ acq_list \in ExploitLists(call[1])
    /\ rs_list = << >> /\ challengers = << >> /\ scored = FALSE
    /\ InitBatch /\ InitHist /\ InitFn
    /\ InitClock /\ tick = 0

Init == InitPlain \/ InitCached \/ InitBatchCall


\* ------------------------------------------------------- PCSMBO.run

\* A run history the external evaluator can leave behind: runs are only added.
Extensions(rh) ==
    {rh2 \in RunHistories :
        /\ Len(rh2) >= Len(rh)
        /\ \A x \in DOMAIN rh : rh2[x].config = rh[x].config}

\* The clock counts hundredths of a second: the 0.01 of max(0.01, time_spend).
TimeFloor == 1

\* A faulty time bound, which may be shorter than the floor.
time_bound_unfloored(time_spend) == time_spend

\* time_bound=max(0.01, time_spend)
time_bound_of(time_spend) == Max(TimeFloor, time_spend)

\* A faulty loop head, which never reads the shared run history.
LoopTopNoRead == "transform"

LoopTop == IF shared_model THEN "read" ELSE "transform"

\* self.stats.start_timing(); self.incumbent = self.initial_design.run(); iteration = 1
InitialDesign ==
    /\ pc = "start"
    /\ \E v \in ValidConfigs, rh \in RunHistories :
          /\ Recorded(rh, Conf(v, ""))
          /\ incumbent' = Conf(v, "")
          /\ runhistory' = rh
    /\ iteration' = 1
    /\ round' = 1
    /\ lastOut' = incumbent'
    /\ events' = Append(events, "initial_design")
    /\ pc' = LoopTop
    /\ UNCHANGED <<variant, shared_model, result, paramVars, clockVars, selVars, batchVars, fnVars,
                   nSelect, nIntensify, budgetLog, passedInc>>

\* pSMAC.read merges externally produced results into the run history
PsmacRead ==
    /\ pc = "read"
    /\ shared_model
    /\ runhistory' \in Extensions(runhistory)
    /\ Recorded(runhistory', incumbent)
    /\ events' = Append(events, "read")
    /\ pc' = "transform"
    /\ \E d \in 0..tick : now' = now + d
    /\ UNCHANGED <<variant, shared_model, incumbent, iteration, result,
                   paramVars, selVars, batchVars, countVars, fnVars,
                   start_time, spent, time_bound, tick>>

\* start_time = time.time(); X, Y = self.rh2EPM.transform(self.runhistory)
Transform ==
    /\ pc = "transform"
    /\ start_time' = now
    /\ XY' = Len(runhistory)
    /\ \E d \in 0..tick : now' = now + d /\ spent' = d
    /\ events' = Append(events, "transform")
    /\ pc' = "train"
    /\ UNCHANGED <<loopVars, paramVars, time_bound, tick, batchVars, countVars, fnVars, model, acq_update,
                   rs_sorted, init_points, ls_configs, acq_list, rs_list, challengers, scored>>

\* ----------------------------------- the selection round (both variants)

\* self.model.train(X, Y)
TrainModel ==
    /\ pc = "train"
    /\ model' = [round |-> round, data |-> XY]
    /\ pc' = "update"
    /\ UNCHANGED <<loopVars, paramVars, clockVars, batchVars, histVars, fnVars, XY, acq_update,
                   rs_sorted, init_points, ls_configs, acq_list, rs_list, challengers, scored>>

\* A faulty reference value: the cost of the first recorded run.
IncumbentValueFirst(rh, inc) ==
    IF rh_empty(rh) THEN 0 ELSE rh[1].cost

IncumbentValue(rh, inc) ==
    IF rh_empty(rh) THEN 0
    ELSE IF inc = None THEN 0
    ELSE rh_get_cost(rh, inc)

\* self.acquisition_func.update(model=self.model, eta=incumbent_value)
UpdateAcquisition ==
    /\ pc = "update"
    \* the updated acquisition function gives every configuration one value
    /\ \E f \in [ValidConfigs -> AcqValues] :
          acq_update' = [round |-> model.round,
                         eta |-> IncumbentValue(runhistory, incumbent),
                         values |-> f]
    /\ pc' = "pool"
    /\ UNCHANGED <<loopVars, paramVars, clockVars, batchVars, histVars, fnVars, XY, model,
                   rs_sorted, init_points, ls_configs, acq_list, rs_list, challengers, scored>>

\* self.acquisition_func(configs, caching_discounts)
AcqOf(configs) == [x \in DOMAIN configs |-> acq_update.values[configs[x].values]]

\* _get_next_by_random_search(num_points, _sorted=True)
RandomSearchSorted ==
    /\ pc = "pool"
    /\ \E cfgs \in [1..num_rs -> ValidConfigs], rnd \in [1..num_rs -> RndValues] :
          LET rand_cfgs == [x \in 1..num_rs |-> Conf(cfgs[x], "Random Search (Sorted)")]
          IN  rs_sorted' = _get_acq_values_sorted(rand_cfgs, AcqOf(rand_cfgs), rnd)
    /\ scored' = TRUE
    /\ pc' = "local"
    /\ UNCHANGED <<loopVars, paramVars, clockVars, batchVars, histVars, fnVars, XY, model, acq_update,
                   init_points, ls_configs, acq_list, rs_list, challengers>>

\* The seeds of the plain variant (pc_smbo.py): the incumbent, then the top of
\* the ranked previous configurations, then the top of the ranked pool.
PlainSeeds(inc, previous_configs_sorted, pool_sorted, n) ==
    LET num_prev == Min(Len(previous_configs_sorted), n - 1)
        num_rand == Max(0, (n - 1) - num_prev)
    IN  <<inc>> \o Configs(PySliceTo(previous_configs_sorted, num_prev))
              \o Configs(PySliceTo(pool_sorted, num_rand))

\* A faulty seed list, of all previous configurations whatever n is.
CachedSeedsAll(configs_previous_runs_sorted, n) ==
    Configs(configs_previous_runs_sorted)

\* The seeds of the cache-aware variant (select_configuration.py)
CachedSeeds(configs_previous_runs_sorted, n) ==
    LET num_configs_local_search == Min(Len(configs_previous_runs_sorted), n)
    IN  Configs(PySliceTo(configs_previous_runs_sorted, num_configs_local_search))

\* A faulty local search, which leaves the origin of its results unset.
_get_next_by_local_search_untagged(res, vals, perm) ==
    LET configs_acq == [x \in DOMAIN res |->
                           [acq |-> vals[x], config |-> Conf(res[x], "")]]
        shuffled == [x \in DOMAIN res |-> configs_acq[perm[x]]]
    IN  SortDesc(shuffled)

\* _get_next_by_local_search: one maximize per seed (its results are res and
\* vals), the shuffle (perm), then the stable descending sort.
_get_next_by_local_search(res, vals, perm) ==
    LET configs_acq == [x \in DOMAIN res |->
                           [acq |-> vals[x], config |-> Conf(res[x], "Local Search")]]
        shuffled == [x \in DOMAIN res |-> configs_acq[perm[x]]]
    IN  SortDesc(shuffled)

\* `configuration.origin = 'Local Search'` writes to the object maximize
\* returned. Where that is the seed itself and the seed is the pool's j-th
\* candidate, the pool's entry is the same object and carries the new origin.
Retagged(pool_sorted, js) ==
    [j \in DOMAIN pool_sorted |->
        IF j \in js
        THEN [acq |-> pool_sorted[j].acq,
              config |-> Conf(pool_sorted[j].config.values, "Local Search")]
        ELSE pool_sorted[j]]

LocalSearch ==
    /\ pc = "local"
    /\ LET prev == rh_get_all_configs(runhistory)
           p == Len(prev)
       IN  \E rnd \in [1..p -> RndValues] :
              LET prev_sorted == _get_acq_values_sorted(prev, AcqOf(prev), rnd)
                  seeds == IF variant = "plain"
                           THEN PlainSeeds(incumbent, prev_sorted, rs_sorted, num_ls)
                           ELSE CachedSeeds(prev_sorted, num_ls)
                  m == Len(seeds)
                  \* the seeds taken from the pool are the last ones (plain variant)
                  from_pool == IF variant = "plain"
                               THEN Len(PySliceTo(rs_sorted,
                                        Max(0, (num_ls - 1) - Min(p, num_ls - 1))))
                               ELSE 0
              IN  /\ init_points' = seeds
                  /\ \E res \in [1..m -> ValidConfigs], perm \in Perms(m),
                        same \in SUBSET (1..from_pool) :
                        /\ \A j \in same : res[m - from_pool + j] = rs_sorted[j].config.values
                        /\ rs_sorted' = Retagged(rs_sorted, same)
                        /\ ls_configs' = _get_next_by_local_search(
                                             res, [x \in 1..m |-> acq_update.values[res[x]]], perm)
    /\ pc' = "merge"
    /\ UNCHANGED <<loopVars, paramVars, clockVars, batchVars, histVars, fnVars, XY, model, acq_update,
                   acq_list, rs_list, challengers, scored>>

\* next_configs_by_acq_value = sorted + local; .sort(reverse=True); [_[1] for _ in ...]
MergedByAcq(pool_sorted, local_sorted) == SortDesc(pool_sorted \o local_sorted)

\* A faulty size of the exploration list: that of the pool alone.
num_points_pool_only(n_ls, n_rs) == n_rs

\* num_points=num_configurations_by_local_search + num_configurations_by_random_search_sorted
num_points_plain(n_ls, n_rs) == n_ls + n_rs

\* choose_next, from the merge to its return (plain variant)
MergePlain ==
    /\ pc = "merge"
    /\ variant = "plain"
    /\ acq_list' = Configs(MergedByAcq(rs_sorted, ls_configs))
    /\ \E cfgs \in [1..num_points_plain(num_ls, num_rs) -> ValidConfigs] :
          rs_list' = [x \in 1..num_points_plain(num_ls, num_rs) |->
                         Conf(cfgs[x], "Random Search")]
    /\ challengers' = ZipChain(acq_list', rs_list')
    /\ nSelect' = nSelect + 1
    /\ \E d \in 0..tick : now' = now + d /\ spent' = spent + d
    /\ events' = Append(events, "select")
    /\ pc' = "intensify"
    /\ UNCHANGED <<loopVars, paramVars, start_time, time_bound, tick, batchVars, fnVars, XY, model, acq_update,
                   rs_sorted, init_points, ls_configs, scored,
                   round, nIntensify, budgetLog, passedInc, lastOut>>

\* time_spend = time.time() - start_time
\* self.incumbent, inc_perf = self.intensifier.intensify(challengers, incumbent, ...)
\* The intensifier keeps the incumbent or replaces it by a challenger, and adds runs.
Intensify ==
    /\ pc = "intensify"
    /\ \E v \in {incumbent.values} \cup {c.values : c \in Range(challengers)},
          rh \in Extensions(runhistory) :
          /\ ~rh_empty(rh)
          /\ Recorded(rh, Conf(v, ""))
          \* the origin attribute of the incumbent is never read
          /\ incumbent' = Conf(v, "")
          /\ runhistory' = rh
    /\ passedInc' = incumbent
    /\ lastOut' = incumbent'
    /\ nIntensify' = nIntensify + 1
    /\ events' = Append(events, "intensify")
    /\ pc' = IF shared_model THEN "write" ELSE "budget"
    \* the locals of the finished selection are dropped
    /\ rs_sorted' = << >> /\ init_points' = << >> /\ ls_configs' = << >>
    /\ acq_list' = << >> /\ rs_list' = << >> /\ challengers' = << >>
    /\ scored' = FALSE
    /\ time_bound' = time_bound_of(now - start_time)
    \* the clock is read as differences only: its origin moves to the end of the round
    /\ now' = 0 /\ start_time' = 0
    /\ UNCHANGED <<variant, shared_model, iteration, result, paramVars, spent, tick, batchVars, fnVars,
                   XY, model, acq_update, round, nSelect, budgetLog>>

\* pSMAC.write persists the run history; nothing of the optimizer changes
PsmacWrite ==
    /\ pc = "write"
    /\ shared_model
    /\ events' = Append(events, "write")
    /\ pc' = "budget"
    /\ UNCHANGED <<loopVars, paramVars, clockVars, selVars, batchVars, countVars, fnVars>>

\* A faulty end of round, which goes on although the budget is exhausted.
BudgetCheckNoBreak ==
    /\ pc = "budget"
    /\ iteration' = iteration + 1
    /\ \E exhausted \in BOOLEAN :
          /\ round >= MaxRounds => exhausted
          /\ budgetLog' = Append(budgetLog, exhausted)
    /\ pc' = LoopTop /\ round' = round + 1 /\ passedInc' = None
    /\ spent' = 0 /\ time_bound' = 0
    /\ events' = Append(events, "budget")
    /\ UNCHANGED <<variant, shared_model, incumbent, runhistory, result,
                   paramVars, now, start_time, tick, selVars, batchVars, fnVars,
                   nSelect, nIntensify, lastOut>>

\* iteration += 1; if self.stats.is_budget_exhausted(): break
BudgetCheck ==
    /\ pc = "budget"
    /\ iteration' = iteration + 1
    /\ \E exhausted \in BOOLEAN :
          /\ round >= MaxRounds => exhausted
          /\ budgetLog' = Append(budgetLog, exhausted)
          /\ IF exhausted
             THEN /\ pc' = "return" /\ round' = round /\ passedInc' = passedInc
                  /\ UNCHANGED <<spent, time_bound>>
             ELSE /\ pc' = LoopTop /\ round' = round + 1 /\ passedInc' = None
                  \* the measurements of the finished round are dropped
                  /\ spent' = 0 /\ time_bound' = 0
    /\ events' = Append(events, "budget")
    /\ UNCHANGED <<variant, shared_model, incumbent, runhistory, result,
                   paramVars, now, start_time, tick, selVars, batchVars, fnVars,
                   nSelect, nIntensify, lastOut>>

\* A faulty return, of the incumbent the last intensify call was given.
ReturnPassed ==
    /\ pc = "return"
    /\ result' = passedInc
    /\ pc' = "done"
    /\ UNCHANGED <<variant, shared_model, incumbent, runhistory, iteration,
                   paramVars, clockVars, selVars, batchVars, histVars, fnVars>>

\* return self.incumbent
Return ==
    /\ pc = "return"
    /\ result' = incumbent
    /\ pc' = "done"
    /\ UNCHANGED <<variant, shared_model, incumbent, runhistory, iteration,
                   paramVars, clockVars, selVars, batchVars, histVars, fnVars>>


\* ------------------------------ CachedSelectConfiguration: batch sampler

\* _get_values: the entries of config_dict whose step (the text before the
\* first ':') is one of pipeline_steps
_get_values(config_dict, pipeline_steps) ==
    LET names == {hp_name \in DOMAIN config_dict : hp_name[1] \in pipeline_steps}
    IN  [hp_name \in names |-> config_dict[hp_name]]

\* A faulty update, which keeps the value a key already has.
DictUpdateKeep(d, e) ==
    [k \in DOMAIN d \cup DOMAIN e |-> IF k \in DOMAIN d THEN d[k] ELSE e[k]]

\* dict.update
DictUpdate(d, e) ==
    [k \in DOMAIN d \cup DOMAIN e |-> IF k \in DOMAIN e THEN e[k] ELSE d[k]]

\* The body of _combine_configurations on the two dictionaries, for any two
\* step lists self.constant_pipeline_steps and self.variable_pipeline_steps
combine_values(start_dict, new_dict, constant_steps, variable_steps) ==
    LET constant_values == _get_values(start_dict, constant_steps)
        variable_values == _get_values(new_dict, variable_steps)
    IN  DictUpdate(DictUpdate(<< >>, constant_values), variable_values)

\* The values handed to Configuration(...) by _combine_configurations
_combine_configurations(start_config, new_config) ==
    combine_values(start_config.values, new_config.values,
                   constant_pipeline_steps, variable_pipeline_steps)

\* choose_next of the cache-aware variant, from the merge to the call of
\* _get_next_by_random_search_batch(num_points=len(next_configs_by_acq_value), ...)
MergeCached ==
    /\ pc = "merge"
    /\ variant = "cached"
    /\ acq_list' = Configs(MergedByAcq(rs_sorted, ls_configs))
    /\ rand_configs' = << >> /\ leafOf' = << >>
    /\ leaf_idx' = 0
    /\ pc' = "b_for"
    \* what the rest of the round never reads is reset
    /\ incumbent' = None /\ runhistory' = << >>
    /\ num_rs' = 0 /\ num_ls' = 0
    /\ XY' = 0 /\ model' = NoModel
    /\ init_points' = << >>
    /\ UNCHANGED <<variant, shared_model, iteration, result, leaf_size, histVars, fnVars,
                   clockVars, acq_update, rs_sorted, ls_configs, rs_list, challengers, scored,
                   batch, i, consecFails, breakFails>>

\* for i in range(0, num_points): start_config = sample; batch_of_configs = [start]; i = 1
BatchNextLeaf ==
    /\ pc = "b_for"
    /\ leaf_idx < Len(acq_list)
    /\ \E v \in ValidConfigs : batch' = <<Conf(v, "")>>
    /\ i' = 1
    /\ consecFails' = 0
    /\ pc' = "b_while"
    /\ rs_sorted' = << >> /\ ls_configs' = << >>
    /\ UNCHANGED <<loopVars, paramVars, clockVars, histVars, fnVars, XY, model, acq_update,
                   init_points, acq_list, rs_list, challengers, scored,
                   leaf_idx, rand_configs, breakFails, leafOf>>

\* rand_configs.extend(batch_of_configs), and the next pass of the for loop
ExtendWithLeaf ==
    /\ rand_configs' = rand_configs \o batch
    /\ leafOf' = leafOf \o [x \in 1..Len(batch) |-> leaf_idx]
    /\ leaf_idx' = leaf_idx + 1
    /\ batch' = << >>
    /\ i' = 0
    /\ consecFails' = 0
    /\ pc' = "b_for"

\* while i < leaf_size: the splice is a valid configuration
SpliceOk ==
    /\ pc = "b_while"
    /\ i < leaf_size
    /\ \E v \in ValidConfigs :
          LET combined == _combine_configurations(batch[1], Conf(v, ""))
          IN  /\ IsValidConfig(combined)
              /\ batch' = Append(batch, Conf(combined, ""))
    /\ i' = i + 1
    /\ consecFails' = 0
    /\ UNCHANGED <<pc, loopVars, paramVars, clockVars, selVars, histVars, fnVars,
                   leaf_idx, rand_configs, breakFails, leafOf>>

\* Configuration(...) raises ValueError and `i > 10` is false: the loop goes on
SpliceRetry ==
    /\ pc = "b_while"
    /\ i < leaf_size
    /\ \E v \in ValidConfigs :
          ~IsValidConfig(_combine_configurations(batch[1], Conf(v, "")))
    /\ ~(i > RetryBound)
    \* the failures are counted where the sampler is entered directly
    /\ IF variant = "batch"
       THEN consecFails < MaxFails /\ consecFails' = consecFails + 1
       ELSE consecFails' = consecFails
    /\ UNCHANGED <<pc, loopVars, paramVars, clockVars, selVars, histVars, fnVars,
                   leaf_idx, batch, i, rand_configs, breakFails, leafOf>>

\* Configuration(...) raises ValueError and `i > 10` is true: break
SpliceBreak ==
    /\ pc = "b_while"
    /\ i < leaf_size
    /\ \E v \in ValidConfigs :
          ~IsValidConfig(_combine_configurations(batch[1], Conf(v, "")))
    /\ i > RetryBound
    /\ breakFails' = consecFails + 1
    /\ ExtendWithLeaf
    /\ UNCHANGED <<loopVars, paramVars, clockVars, selVars, histVars, fnVars>>

\* the while loop ends with i = leaf_size
LeafDone ==
    /\ pc = "b_while"
    /\ ~(i < leaf_size)
    /\ ExtendWithLeaf
    /\ UNCHANGED <<loopVars, paramVars, clockVars, selVars, histVars, fnVars, breakFails>>

\* the for loop is over: tag the origins and return to run
BatchReturn ==
    /\ pc = "b_for"
    /\ ~(leaf_idx < Len(acq_list))
    /\ rs_list' = SetOrigin(rand_configs, "Random Search (Batch)")
    /\ rand_configs' = << >>
    /\ pc' = "interleave"
    /\ UNCHANGED <<loopVars, paramVars, clockVars, histVars, fnVars, XY, model, acq_update,
                   rs_sorted, init_points, ls_configs, acq_list, challengers, scored,
                   leaf_idx, batch, i, consecFails, breakFails, leafOf>>

\* The list comprehension of CachedSelectConfiguration.run: slot x takes the
\* next exploitation candidate when x % (leaf+1) = 0 and the next exploration
\* candidate otherwise; next() on an exhausted iterator raises StopIteration.
RECURSIVE InterleaveFrom(_, _, _, _, _, _, _)
InterleaveFrom(x, ap, rp, out, a, r, leaf) ==
    IF x >= Len(a) + Len(r) THEN [ok |-> TRUE, out |-> out]
    ELSE IF x % (leaf + 1) = 0
         THEN IF ap > Len(a) THEN [ok |-> FALSE, out |-> out]
              ELSE InterleaveFrom(x + 1, ap + 1, rp, Append(out, a[ap]), a, r, leaf)
         ELSE IF rp > Len(r) THEN [ok |-> FALSE, out |-> out]
              ELSE InterleaveFrom(x + 1, ap, rp + 1, Append(out, r[rp]), a, r, leaf)

Interleave(a, r, leaf) == InterleaveFrom(0, 1, 1, << >>, a, r, leaf)

Raised(e) == [values |-> << >>, origin |-> e]

\* The text of Raised(e) for the three collaborators that can fail
Errors == {"model.train", "acquisition_func", "intensify"}

\* An exception leaves choose_next and run (neither has a handler): the
\* locals of the round are gone, the fields of the optimizer stay as they are.
Propagate(e) ==
    /\ result' = Raised(e)
    /\ pc' = "raised"
    /\ XY' = 0
    /\ rs_sorted' = << >> /\ init_points' = << >> /\ ls_configs' = << >>
    /\ acq_list' = << >> /\ rs_list' = << >> /\ challengers' = << >>
    /\ scored' = FALSE
    /\ UNCHANGED <<variant, shared_model, incumbent, runhistory, iteration,
                   paramVars, clockVars, batchVars, histVars, fnVars, model, acq_update>>

\* self.model.train(X, Y) raises
TrainRaises ==
    /\ pc = "train"
    /\ Propagate("model.train")

\* self.acquisition_func(...) raises while the pool or the previous
\* configurations are ranked
AcquisitionRaises ==
    /\ pc \in {"pool", "local"}
    /\ Propagate("acquisition_func")

\* A faulty call of intensify, whose error is swallowed: the round goes on.
IntensifyAbsorbs ==
    /\ pc = "intensify"
    /\ variant = "plain"
    /\ result' = Raised("intensify")
    /\ pc' = IF shared_model THEN "write" ELSE "budget"
    /\ XY' = 0
    /\ rs_sorted' = << >> /\ init_points' = << >> /\ ls_configs' = << >>
    /\ acq_list' = << >> /\ rs_list' = << >> /\ challengers' = << >>
    /\ scored' = FALSE
    /\ UNCHANGED <<variant, shared_model, incumbent, runhistory, iteration,
                   paramVars, clockVars, batchVars, histVars, fnVars, model, acq_update>>

\* self.intensifier.intensify(...) raises
IntensifyRaises ==
    /\ pc = "intensify"
    /\ variant = "plain"
    /\ Propagate("intensify")

InterleaveReturn ==
    /\ pc = "interleave"
    /\ Interleave(acq_list, rs_list, leaf_size).ok
    /\ challengers' = Interleave(acq_list, rs_list, leaf_size).out
    /\ nSelect' = nSelect + 1
    /\ pc' = "done"
    /\ UNCHANGED <<loopVars, paramVars, clockVars, batchVars, fnVars, XY, model, acq_update,
                   rs_sorted, init_points, ls_configs, acq_list, rs_list, scored,
                   round, nIntensify, budgetLog, passedInc, lastOut, events>>

InterleaveStopIteration ==
    /\ pc = "interleave"
    /\ ~Interleave(acq_list, rs_list, leaf_size).ok
    /\ result' = Raised("StopIteration")
    /\ pc' = "raised"
    /\ UNCHANGED <<variant, shared_model, incumbent, runhistory, iteration,
                   paramVars, clockVars, selVars, batchVars, histVars, fnVars>>

Next ==
    \/ InitialDesign \/ PsmacRead \/ Transform
    \/ TrainModel \/ UpdateAcquisition \/ RandomSearchSorted \/ LocalSearch
    \/ MergePlain \/ Intensify \/ PsmacWrite \/ BudgetCheck \/ Return
    \/ MergeCached \/ BatchNextLeaf \/ SpliceOk \/ SpliceRetry \/ SpliceBreak
    \/ LeafDone \/ BatchReturn \/ InterleaveReturn \/ InterleaveStopIteration
    \/ TrainRaises \/ AcquisitionRaises \/ IntensifyRaises

Spec == Init /\ [][Next]_vars

\* ------------------------------------------- the pure functions, on their own

\* Everything but the argument of the function is idle.
InitFnCall(fn) ==
    /\ variant = fn /\ pc = "call"
    /\ shared_model = FALSE
    /\ incumbent = None /\ runhistory = << >> /\ iteration = 0 /\ result = None
    /\ num_rs = 0 /\ num_ls = 0 /\ leaf_size = 1
    /\ round = 0
    /\ InitSel /\ InitBatch /\ InitHist
    /\ InitClock /\ tick = 0
    /\ fout = << >>

\* A cached record: (partial configuration, discount value)
PartialConfigs == UNION {[ks -> Vals] : ks \in SUBSET Keys}
CachedRecords == PartialConfigs \X DiscountValues
CachedLists == UNION {[1..n -> CachedRecords] : n \in 0..MaxRecords}

\* _compute_caching_discounts([config], cached_configs) is about to be called
InitDiscount ==
    /\ InitFnCall("_compute_caching_discounts")
    /\ \E values \in [Keys -> Vals], cached_configs \in CachedLists :
          fin = [config |-> Conf(values, ""), cached_configs |-> cached_configs]

\* The call: it returns the discounts and assigns nothing to its arguments.
ComputeCachingDiscounts ==
    /\ pc = "call"
    /\ variant = "_compute_caching_discounts"
    /\ fout' = [runtime_discounts |->
                    _compute_caching_discounts(<<fin.config>>, fin.cached_configs),
                config |-> fin.config,
                cached_configs |-> fin.cached_configs]
    /\ pc' = "returned"
    /\ UNCHANGED <<loopVars, paramVars, clockVars, selVars, batchVars, histVars, fin>>

SpecDiscount == InitDiscount /\ [][ComputeCachingDiscounts]_vars

\* _get_acq_values_sorted(configs) is about to be called twice on the same
\* candidates and acquisition values, with the random numbers of two draws.
InitSort ==
    /\ InitFnCall("_get_acq_values_sorted")
    /\ \E n \in 0..MaxSortLen :
          \E acq \in [1..n -> AcqValues], random \in [1..n -> RndValues],
             random2 \in [1..n -> RndValues] :
             fin = [configs |-> [x \in 1..n |-> x], acq_values |-> acq,
                    random |-> random, random2 |-> random2]

GetAcqValuesSorted ==
    /\ pc = "call"
    /\ variant = "_get_acq_values_sorted"
    /\ fout' = [first |-> _get_acq_values_sorted(fin.configs, fin.acq_values, fin.random),
                second |-> _get_acq_values_sorted(fin.configs, fin.acq_values, fin.random2)]
    /\ pc' = "returned"
    /\ UNCHANGED <<loopVars, paramVars, clockVars, selVars, batchVars, histVars, fin>>

SpecSort == InitSort /\ [][GetAcqValuesSorted]_vars

\* ---------------------------------------- choose_next on a seeded generator

\* A faulty generator, which returns a number that is not seeded.
rng_rand_unseeded(seed, unseeded, k) == unseeded

\* The k-th number of the stream of the seeded generator (self.rng, and the
\* generator of the configuration space). `unseeded` is what a source outside
\* the seeded generators would return: the code consults none.
rng_rand(seed, unseeded, k) == seed[((k - 1) % Len(seed)) + 1]

\* sample_configuration: the valid configuration a random number selects
ConfigOfDraw(v) == [key \in Keys |-> IF key = KeyA THEN v ELSE 1 - v]

Swap(x, a, b) ==
    [y \in DOMAIN x |-> IF y = a THEN x[b] ELSE IF y = b THEN x[a] ELSE x[y]]

\* random.shuffle(x, random): for i in reversed(range(1, len(x))):
\* j = int(random() * (i + 1)); x[i], x[j] = x[j], x[i].  The number r[t]
\* stands for the float r[t] / 2.
RECURSIVE ShuffleFrom(_, _, _)
ShuffleFrom(x, t, r) ==
    IF t > Len(r) THEN x
    ELSE LET last == Len(x) - t
             j == (r[t] * (last + 1)) \div 2
         IN  ShuffleFrom(Swap(x, last + 1, j + 1), t + 1, r)

ShufflePerm(m, r) == ShuffleFrom([x \in 1..m |-> x], 1, r)

\* PCSMBO.choose_next as a function of its inputs and of the seed: what it
\* returns, and which numbers of the stream each of its draws takes
\* (<<draw, first number, how many>>).
choose_next_seeded(inp, unseeded) ==
    LET rand(k) == rng_rand(inp.seed, unseeded, k)
        acq(configs) == [x \in DOMAIN configs |-> inp.acq[configs[x].values]]
        pool == inp.num_rs
        n == inp.num_ls
        k1 == 1
        sampled == [x \in 1..pool |->
                            Conf(ConfigOfDraw(rand(k1 + x - 1)), "Random Search (Sorted)")]
        k2 == k1 + pool
        pool_sorted == _get_acq_values_sorted(sampled, acq(sampled),
                                              [x \in 1..pool |-> rand(k2 + x - 1)])
        prev == rh_get_all_configs(inp.runhistory)
        p == Len(prev)
        k3 == k2 + pool
        prev_sorted == _get_acq_values_sorted(prev, acq(prev),
                                              [x \in 1..p |-> rand(k3 + x - 1)])
        seeds == PlainSeeds(inp.incumbent, prev_sorted, pool_sorted, n)
        m == Len(seeds)
        res == [x \in 1..m |-> inp.optimum[seeds[x].values]]
        k4 == k3 + p
        perm == ShufflePerm(m, [x \in 1..(m - 1) |-> rand(k4 + x - 1)])
        local_sorted == _get_next_by_local_search(
                            res, [x \in 1..m |-> inp.acq[res[x]]], perm)
        k5 == k4 + (m - 1)
        by_acq == Configs(MergedByAcq(pool_sorted, local_sorted))
        by_random == [x \in 1..(n + pool) |->
                         Conf(ConfigOfDraw(rand(k5 + x - 1)), "Random Search")]
    IN  [challengers |-> ZipChain(by_acq, by_random),
         draws |-> << <<"pool sampling", k1, pool>>,
                      <<"pool tie-break", k2, pool>>,
                      <<"previous tie-break", k3, p>>,
                      <<"shuffle", k4, m - 1>>,
                      <<"exploration sampling", k5, n + pool>> >>]

\* choose_next is about to be called twice with the same inputs and seed
InitSeeded ==
    /\ InitFnCall("choose_next")
    /\ \E inc \in ValidConfigs, rh \in RunHistories,
          f \in [ValidConfigs -> AcqValues], optimum \in [ValidConfigs -> ValidConfigs],
          pool \in 1..MaxPool, n \in 0..MaxSeeds,
          seed \in [1..MaxSeedBits -> RndValues] :
          /\ Recorded(rh, Conf(inc, ""))
          /\ pool + n <= MaxCandidates
          /\ fin = [incumbent |-> Conf(inc, ""), runhistory |-> rh, acq |-> f,
                    optimum |-> optimum, num_rs |-> pool, num_ls |-> n, seed |-> seed]

ChooseNextTwice ==
    /\ pc = "call"
    /\ variant = "choose_next"
    /\ \E u1, u2 \in RndValues :
          fout' = [first |-> choose_next_seeded(fin, u1),
                   second |-> choose_next_seeded(fin, u2)]
    /\ pc' = "returned"
    /\ UNCHANGED <<loopVars, paramVars, clockVars, selVars, batchVars, histVars, fin>>

SpecSeeded == InitSeeded /\ [][ChooseNextTwice]_vars

\* ------------------------------------------ _combine_configurations alone

\* A third step, which a selector may list as constant, as variable, or not at all
KeyC == <<"post", "c">>
SpliceKeys == Keys \cup {KeyC}
SpliceSteps == {key[1] : key \in SpliceKeys}
SpliceDicts == UNION {[ks -> Vals] : ks \in SUBSET SpliceKeys}

\* _combine_configurations(start_config, new_config) is about to be called on
\* a selector built with some constant and some variable pipeline steps
InitCombine ==
    /\ InitFnCall("_combine_configurations")
    /\ \E start_dict \in SpliceDicts, new_dict \in SpliceDicts,
          constant_steps \in SUBSET SpliceSteps, variable_steps \in SUBSET SpliceSteps :
          fin = [start_config |-> start_dict, new_config |-> new_dict,
                 constant_pipeline_steps |-> constant_steps,
                 variable_pipeline_steps |-> variable_steps]

\* The call: it builds a new dictionary and assigns nothing to its arguments.
CombineConfigurations ==
    /\ pc = "call"
    /\ variant = "_combine_configurations"
    /\ fout' = [values |-> combine_values(fin.start_config, fin.new_config,
                                          fin.constant_pipeline_steps,
                                          fin.variable_pipeline_steps),
                start_config |-> fin.start_config,
                new_config |-> fin.new_config]
    /\ pc' = "returned"
    /\ UNCHANGED <<loopVars, paramVars, clockVars, selVars, batchVars, histVars, fin>>

SpecCombine == InitCombine /\ [][CombineConfigurations]_vars

\* ------------------------------------- the number of local-search seeds

\* run: num_configurations_by_local_search=10
RunNumLocalSearch == 10
\* choose_next: min(10, ...)
SeedCountCap == 10
\* choose_next: else: num_configurations_by_local_search = 10
SeedCountDefault == 10

\* math.ceil(0.5 * ema), ema counted in steps of 1/EmaUnit
CeilHalf(ema) == (ema + 2 * EmaUnit - 1) \div (2 * EmaUnit)

\* choose_next, "if num_configurations_by_local_search is None: ...": arg is
\* << >> for None and <<n>> for a given count
num_configurations_by_local_search(arg, ema) ==
    IF arg = << >>
    THEN IF ema > 0
         THEN [n |-> Min(SeedCountCap, CeilHalf(ema) + 1), ema_read |-> TRUE]
         ELSE [n |-> SeedCountDefault, ema_read |-> TRUE]
    ELSE [n |-> arg[1], ema_read |-> FALSE]

\* A faulty call by run, which leaves the count to choose_next.
run_passes_none == << >>

\* what run passes as num_configurations_by_local_search
run_passes == <<RunNumLocalSearch>>

\* The statistic has some value; choose_next may be given a count or None.
InitSeedCount ==
    /\ InitFnCall("num_configurations_by_local_search")
    /\ \E ema \in 0..MaxEma, arg \in {<< >>} \cup {<<n>> : n \in 0..MaxSeeds} :
          fin = [ema |-> ema, arg |-> arg]

\* a round of run: choose_next(X, Y, num_configurations_by_random_search_sorted=100,
\*                               num_configurations_by_local_search=10)
RunChooseNext ==
    /\ pc = "call"
    /\ variant = "num_configurations_by_local_search"
    /\ fout' = [call |-> "run", arg |-> run_passes,
                res |-> num_configurations_by_local_search(run_passes, fin.ema)]
    /\ pc' = "returned"
    /\ UNCHANGED <<loopVars, paramVars, clockVars, selVars, batchVars, histVars, fin>>

\* choose_next called by another caller, with a count or with None
ChooseNextCalled ==
    /\ pc = "call"
    /\ variant = "num_configurations_by_local_search"
    /\ fout' = [call |-> "choose_next", arg |-> fin.arg,
                res |-> num_configurations_by_local_search(fin.arg, fin.ema)]
    /\ pc' = "returned"
    /\ UNCHANGED <<loopVars, paramVars, clockVars, selVars, batchVars, histVars, fin>>

SpecSeedCount == InitSeedCount /\ [][RunChooseNext \/ ChooseNextCalled]_vars

\* ================================================================ claims

Last(s) == s[Len(s)]

\* C1: PCSMBO.run stops exactly at the first round K whose budget check
\* answers true (every earlier answer was false), also when that is round 1;
\* it has then made exactly K selections and K intensify calls.
C1_ExactlyKRounds ==
    variant = "plain" =>
        /\ \A x \in 1..(Len(budgetLog) - 1) : ~budgetLog[x]
        /\ (pc \in {"return", "done"}) <=> (budgetLog # << >> /\ Last(budgetLog))
        /\ pc \in {"return", "done"} =>
              /\ round = Len(budgetLog)
              /\ nSelect = Len(budgetLog)
              /\ nIntensify = Len(budgetLog)

\* C1's case: run has returned after a first round whose check answered false
C1_Witness ==
    /\ variant = "plain" /\ pc = "done"
    /\ Len(budgetLog) = 2 /\ ~budgetLog[1] /\ budgetLog[2]
    /\ nSelect = 2 /\ nIntensify = 2

\* C2: every intensify call of PCSMBO.run is given the incumbent that the
\* initial design (round 1) or the previous intensify call (later rounds)
\* returned, and run returns what the last intensify call returned.
C2_IncumbentThreaded ==
    [][variant = "plain" =>
          /\ nIntensify' # nIntensify => passedInc' = lastOut
          /\ pc' = "done" => result' = lastOut']_vars

\* C2's case: run returned after two rounds whose last intensify call
\* replaced the incumbent it was given
C2_Witness ==
    /\ variant = "plain" /\ pc = "done"
    /\ nIntensify = 2
    /\ passedInc # None /\ passedInc # lastOut
    /\ result = lastOut


\* C3: building one leaf never retries more than RetryBound consecutive
\* failed splices: after that many the leaf is accepted short.
C3_RetriesBounded == consecFails <= RetryBound

\* C4: the caching discount of a configuration is the sum of the discount
\* values of exactly the records whose partial configuration agrees with it
\* on every key the record specifies (a record without keys always agrees);
\* the configuration and the records are as they were given.
RECURSIVE SumOver(_, _)
SumOver(S, f) ==
    IF S = {} THEN 0
    ELSE LET x == CHOOSE y \in S : TRUE IN f[x] + SumOver(S \ {x}, f)

Agrees(config, record) ==
    \A key \in DOMAIN record[1] : config.values[key] = record[1][key]

C4_DiscountIsSumOfMatches ==
    pc = "returned" /\ variant = "_compute_caching_discounts" =>
        LET matching == {x \in DOMAIN fin.cached_configs :
                            Agrees(fin.config, fin.cached_configs[x])}
        IN  /\ fout.runtime_discounts =
                   <<SumOver(matching, [x \in matching |-> fin.cached_configs[x][2]])>>
            /\ fout.config = fin.config
            /\ fout.cached_configs = fin.cached_configs

\* C4's case: a record with keys that agrees, one with a discount that does
\* not, and a positive discount returned
C4_Witness ==
    /\ pc = "returned" /\ variant = "_compute_caching_discounts"
    /\ \E x, y \in DOMAIN fin.cached_configs :
          /\ DOMAIN fin.cached_configs[x][1] # {}
          /\ Agrees(fin.config, fin.cached_configs[x])
          /\ fin.cached_configs[x][2] > 0
          /\ ~Agrees(fin.config, fin.cached_configs[y])
          /\ fin.cached_configs[y][2] > 0
          /\ fout.runtime_discounts = <<fin.cached_configs[x][2]>>

\* C5: the plain choose_next returns twice as many challengers as there are
\* exploitation candidates (pool plus local-search results); the odd places
\* hold the merged exploitation list in descending acquisition value, the
\* even places the freshly drawn exploration configurations, both in order.
C5_PlainInterleave ==
    variant = "plain" /\ pc = "intensify" =>
        /\ Len(acq_list) = Len(rs_sorted) + Len(ls_configs)
        /\ \A k \in 1..(Len(acq_list) - 1) :
              acq_update.values[acq_list[k].values]
                  >= acq_update.values[acq_list[k + 1].values]
        /\ Len(challengers) = 2 * Len(acq_list)
        /\ \A k \in 1..Len(acq_list) :
              /\ challengers[2 * k - 1] = acq_list[k]
              /\ challengers[2 * k] = rs_list[k]

\* C6: in the list the cache-aware run returns, place x (from 0) holds an
\* exploitation candidate iff x mod (leaf_size + 1) = 0, these in their merged
\* descending order, and the places after the g-th exploitation candidate hold,
\* in order, members of the g-th exploration leaf only.
C6_LeavesKeptTogether ==
    variant \in {"cached", "batch"} /\ pc = "done" =>
        /\ variant = "cached" =>
              \A k \in 1..(Len(acq_list) - 1) :
                 acq_update.values[acq_list[k].values]
                     >= acq_update.values[acq_list[k + 1].values]
        /\ \A x \in 0..(Len(challengers) - 1) :
              LET g == x \div (leaf_size + 1)
              IN  IF x % (leaf_size + 1) = 0
                  THEN challengers[x + 1] = acq_list[g + 1]
                  ELSE /\ challengers[x + 1] = rs_list[x - g]
                       /\ leafOf[x - g] = g

\* C7: the ranked sort returns a permutation of its candidates in descending
\* acquisition value, candidates of equal value ordered by their random
\* numbers; the same random numbers give the same order.
RankedBy(out, acq, rnd) ==
    /\ Len(out) = Len(acq)
    /\ {out[x].config : x \in DOMAIN out} = DOMAIN acq
    /\ \A x \in DOMAIN out : out[x].acq = acq[out[x].config]
    /\ \A x \in 1..(Len(out) - 1) :
          \/ out[x].acq > out[x + 1].acq
          \/ /\ out[x].acq = out[x + 1].acq
             /\ rnd[out[x].config] >= rnd[out[x + 1].config]

C7_RankedSort ==
    pc = "returned" /\ variant = "_get_acq_values_sorted" =>
        /\ RankedBy(fout.first, fin.acq_values, fin.random)
        /\ RankedBy(fout.second, fin.acq_values, fin.random2)
        /\ fin.random = fin.random2 => fout.first = fout.second

\* C7's case: two draws order candidates of equal value differently
C7_Witness ==
    /\ pc = "returned" /\ variant = "_get_acq_values_sorted"
    /\ fin.random # fin.random2
    /\ \E x, y \in DOMAIN fout.first :
          /\ x < y
          /\ fout.first[x].acq = fout.first[y].acq
          /\ fout.second[x].config = fout.first[y].config
          /\ fout.second[y].config = fout.first[x].config

\* C8: while candidates are scored, the acquisition function holds the
\* update of this round, made with the model trained in this round and with
\* eta = 0 if the run history is empty or the incumbent unset and else the
\* recorded cost of the incumbent; nothing is scored before the update.
C8_EtaBeforeScoring ==
    /\ pc \in {"train", "update"} => ~scored
    /\ pc = "update" => model.round = round
    /\ scored => acq_update.round = round
    /\ pc \in {"pool", "local", "merge"} =>
          /\ model.round = round
          /\ acq_update.round = round
          /\ IF runhistory = << >> \/ incumbent = None
             THEN acq_update.eta = 0
             ELSE \E x \in DOMAIN runhistory :
                     /\ runhistory[x].config = incumbent.values
                     /\ acq_update.eta = runhistory[x].cost

\* C8's case: in a second round the pool has been scored against the cost of
\* an incumbent that is not the first recorded configuration
C8_Witness ==
    /\ variant = "plain" /\ pc = "local" /\ scored
    /\ round = 2
    /\ Len(runhistory) = 2
    /\ runhistory[2].config = incumbent.values
    /\ acq_update.eta = runhistory[2].cost

\* C9: when no leaf is cut short the batch sampler returns num_points times
\* leaf_size configurations, leaf after leaf; the members of a leaf agree on
\* every key of every constant step; and a leaf is cut short only after at
\* least RetryBound consecutive failed splices.
C9_BatchSampler ==
    /\ breakFails = 0 \/ breakFails >= RetryBound
    /\ pc = "interleave" =>
          /\ breakFails = 0 =>
                /\ Len(rs_list) = Len(acq_list) * leaf_size
                /\ \A x \in DOMAIN rs_list : leafOf[x] = (x - 1) \div leaf_size
          /\ \A x, y \in DOMAIN rs_list :
                leafOf[x] = leafOf[y] =>
                    \A key \in Keys :
                       key[1] \in constant_pipeline_steps =>
                           rs_list[x].values[key] = rs_list[y].values[key]

\* C10: every returned challenger carries one of the four origin tags: the
\* exploitation places 'Random Search (Sorted)' or 'Local Search', the
\* exploration places 'Random Search' (plain) or 'Random Search (Batch)'
\* (cache-aware).
ExploitOrigins == {"Random Search (Sorted)", "Local Search"}

C10_OriginTags ==
    /\ variant = "plain" /\ pc = "intensify" =>
          \A x \in DOMAIN challengers :
             IF x % 2 = 1
             THEN challengers[x].origin \in ExploitOrigins
             ELSE challengers[x].origin = "Random Search"
    /\ variant \in {"cached", "batch"} /\ pc = "done" =>
          \A x \in DOMAIN challengers :
             IF (x - 1) % (leaf_size + 1) = 0
             THEN challengers[x].origin \in ExploitOrigins
             ELSE challengers[x].origin = "Random Search (Batch)"

\* C10's case: a cache-aware round returned challengers of all three kinds
C10_Witness ==
    /\ variant = "cached" /\ pc = "done"
    /\ \E x, y, z \in DOMAIN challengers :
          /\ challengers[x].origin = "Local Search"
          /\ challengers[y].origin = "Random Search (Sorted)"
          /\ challengers[z].origin = "Random Search (Batch)"

Occurrences(log, e) == Cardinality({x \in DOMAIN log : log[x] = e})

\* C11: an error of model fitting, of the acquisition function or of
\* intensify in round r ends PCSMBO.run with that error: nothing is returned,
\* nothing runs afterwards, round r writes no shared run history and has no
\* budget check; a failed splice in the batch sampler is the one error after
\* which the work goes on.
C11_ErrorsPropagate ==
    /\ [](variant = "plain" =>
            /\ result.origin \in Errors <=> pc = "raised"
            /\ pc = "raised" =>
                  /\ result \in {Raised(e) : e \in Errors}
                  /\ Occurrences(events, "budget") = round - 1
                  /\ Occurrences(events, "write") = IF shared_model THEN round - 1 ELSE 0)
    /\ [](consecFails > 0 => pc = "b_while" /\ result = None)
    /\ [][pc # "raised"]_vars

\* C11's case: intensify failed in the second round of a run that shares its
\* run history
C11_Witness ==
    /\ variant = "plain" /\ shared_model
    /\ pc = "raised" /\ result = Raised("intensify")
    /\ round = 2
    /\ Occurrences(events, "write") = 1

\* C17: PCSMBO.run calls the initial design once, and then in every round,
\* once each and in this order: the read of the shared run history (iff
\* scenario.shared_model), the transform, the selection, intensify, the write
\* (iff scenario.shared_model) and the budget check.
\* C13: the time bound intensify is given is the time the transform and the
\* selection of that round took, and never less than 0.01 s; the time the read
\* of the shared run history took is not part of it.
C13_TimeBound ==
    (variant = "plain" /\ pc \in {"write", "budget"})
        => /\ time_bound = Max(TimeFloor, spent)
           /\ time_bound >= TimeFloor

\* a second round, with a read, whose transform and selection took longer than the floor
C13_Witness ==
    /\ variant = "plain" /\ shared_model /\ pc = "write"
    /\ round = 2 /\ spent > TimeFloor /\ time_bound = spent

\* The members of the exploration list that belong to leaf k
LeafMembers(k) == {x \in DOMAIN leafOf : leafOf[x] = k}

AcqValueOf(c) == acq_update.values[c.values]

\* C15: in the plain variant the seed list is the incumbent, then the top
\* ranked previously evaluated configurations, then the top of the ranked pool;
\* it never has more than n seeds, has exactly n when there are enough
\* candidates, and local search is run once per seed.
C15_SeedList ==
    (variant = "plain" /\ pc = "merge") =>
        LET prev == rh_get_all_configs(runhistory)
            m == Len(init_points)
            k == Min(Len(prev), Max(0, m - 1))
        IN  /\ m = Min(num_ls, 1 + Len(prev) + Len(rs_sorted))
            /\ m >= 1 => init_points[1] = incumbent
            \* the next k seeds are previous configurations, best first, and no
            \* previous configuration left out is better than one taken
            /\ \A x \in 2..(1 + k) :
                   /\ \E y \in DOMAIN prev : prev[y].values = init_points[x].values
                   /\ x > 2 => AcqValueOf(init_points[x - 1]) >= AcqValueOf(init_points[x])
            /\ \A y \in DOMAIN prev :
                   (\A x \in 2..(1 + k) : prev[y].values # init_points[x].values)
                       => \A x \in 2..(1 + k) : AcqValueOf(init_points[x]) >= AcqValueOf(prev[y])
            \* the rest is the top of the pool
            /\ \A x \in (2 + k)..m :
                   init_points[x].values = rs_sorted[x - 1 - k].config.values
            /\ Len(ls_configs) = m

\* C16: in the cache-aware variant the seeds are the first min(P, n) of the
\* ranked previously evaluated configurations and nothing else (the incumbent
\* only if it ranks among them); with an empty run history no local search
\* is run and the exploitation list is the ranked pool.
C16_CachedSeeds ==
    /\ (variant = "cached" /\ pc = "merge") =>
          LET prev == rh_get_all_configs(runhistory)
              m == Len(init_points)
          IN  /\ m = Min(Len(prev), num_ls)
              /\ \A x \in 1..m :
                     /\ \E y \in DOMAIN prev : prev[y].values = init_points[x].values
                     /\ x > 1 => AcqValueOf(init_points[x - 1]) >= AcqValueOf(init_points[x])
              /\ \A y \in DOMAIN prev :
                     (\A x \in 1..m : prev[y].values # init_points[x].values)
                         => \A x \in 1..m : AcqValueOf(init_points[x]) >= AcqValueOf(prev[y])
              /\ Len(ls_configs) = m
              /\ rh_empty(runhistory) => ls_configs = << >>
    /\ (variant = "cached" /\ pc = "b_for" /\ leaf_idx = 0 /\ ls_configs = << >>)
          => acq_list = Configs(rs_sorted)

\* two previous configurations and one seed, which is not the incumbent
C16_Witness ==
    /\ variant = "cached" /\ pc = "merge"
    /\ Len(rh_get_all_configs(runhistory)) = 2 /\ num_ls = 1
    /\ Len(init_points) = 1
    /\ incumbent # None /\ incumbent.values # init_points[1].values

\* min(10, ceil(0.5 x ema) + 1), or 10 when the ema is zero or unset
DerivedSeedCount(ema) ==
    IF ema <= 0 THEN 10
    ELSE LET c == CHOOSE c \in 0..ema : /\ 2 * EmaUnit * c >= ema
                                        /\ 2 * EmaUnit * (c - 1) < ema
         IN  Min(10, c + 1)

\* C18 as stated: in every round of run the EMA statistic is read and the
\* number of local-search seeds of the round is derived from it.
C18_DerivedEveryRound ==
    (pc = "returned" /\ fout.call = "run")
        => /\ fout.res.ema_read
           /\ fout.res.n = DerivedSeedCount(fin.ema)

\* C18, amended: run passes the count 10 in every round, so that the EMA
\* statistic is not read and the round uses 10 seeds whatever its value;
\* the count is derived from the statistic only in a call of choose_next that
\* passes no count, and a count that is passed is used as it is.
C18_SeedCount ==
    pc = "returned" =>
        /\ fout.call = "run"
              => /\ fout.res.n = 10
                 /\ ~fout.res.ema_read
        /\ (fout.call = "choose_next" /\ fin.arg = << >>)
              => /\ fout.res.ema_read
                 /\ fout.res.n = DerivedSeedCount(fin.ema)
        /\ (fout.call = "choose_next" /\ fin.arg # << >>)
              => /\ fout.res.n = fin.arg[1]
                 /\ ~fout.res.ema_read

\* a round of run at a statistic of 2.0, from which 2 seeds would be derived
C18_Witness ==
    /\ pc = "returned" /\ fout.call = "run"
    /\ fin.ema = 2 * EmaUnit /\ DerivedSeedCount(fin.ema) = 2
    /\ fout.res.n = 10

\* C19: CachedSelectConfiguration.run always completes its interleave, also
\* after leaves that were accepted short, and what it returns holds every
\* exploitation and every exploration candidate exactly once.
C19_InterleaveCompletes ==
    /\ result # Raised("StopIteration")
    /\ (variant \in {"cached", "batch"} /\ pc = "done") =>
          /\ Len(challengers) = Len(acq_list) + Len(rs_list)
          /\ \A c \in Range(acq_list) \cup Range(rs_list) :
                 Occurrences(challengers, c)
                     = Occurrences(acq_list, c) + Occurrences(rs_list, c)

\* C20: the splice has exactly the keys of start whose step is constant and
\* the keys of fresh whose step is variable, each with the value of its source,
\* the fresh value where both give one; keys of other steps are absent, and
\* start and fresh are as they were.
C20_Splice ==
    (pc = "returned" /\ variant = "_combine_configurations") =>
        LET from_start == {key \in DOMAIN fin.start_config :
                              key[1] \in fin.constant_pipeline_steps}
            from_fresh == {key \in DOMAIN fin.new_config :
                              key[1] \in fin.variable_pipeline_steps}
        IN  /\ DOMAIN fout.values = from_start \cup from_fresh
            /\ \A key \in from_fresh : fout.values[key] = fin.new_config[key]
            /\ \A key \in from_start \ from_fresh :
                   fout.values[key] = fin.start_config[key]
            /\ fout.start_config = fin.start_config
            /\ fout.new_config = fin.new_config

\* a step that is both constant and variable, with two different values, and
\* a key of a step that is neither
C20_Witness ==
    /\ pc = "returned" /\ variant = "_combine_configurations"
    /\ "pre" \in fin.constant_pipeline_steps \cap fin.variable_pipeline_steps
    /\ "post" \notin fin.constant_pipeline_steps \cup fin.variable_pipeline_steps
    /\ KeyA \in DOMAIN fin.start_config \cap DOMAIN fin.new_config
    /\ fin.start_config[KeyA] # fin.new_config[KeyA]
    /\ KeyC \in DOMAIN fin.start_config \cap DOMAIN fin.new_config
    /\ KeyC \notin DOMAIN fout.values
    /\ fout.values[KeyA] = fin.new_config[KeyA]

RoundEvents ==
    IF shared_model
    THEN <<"read", "transform", "select", "intensify", "write", "budget">>
    ELSE <<"transform", "select", "intensify", "budget">>

RECURSIVE Rounds(_)
Rounds(k) == IF k <= 0 THEN << >> ELSE Rounds(k - 1) \o RoundEvents

ExpectedEvents(k) == <<"initial_design">> \o Rounds(k)

C17_PhaseOrder ==
    variant = "plain" =>
        /\ round = 0 <=> events = << >>
        /\ round >= 1 =>
              /\ Len(events) >= Len(ExpectedEvents(round - 1))
              /\ Len(events) <= Len(ExpectedEvents(round))
              /\ events = SubSeq(ExpectedEvents(round), 1, Len(events))
        /\ pc \in {"return", "done"} => events = ExpectedEvents(round)
        /\ pc = "intensify" => Last(events) = "select"
        /\ pc = "budget" => Last(events) = IF shared_model THEN "write" ELSE "intensify"

\* C17's case: a run that shares its run history returned after two rounds
C17_Witness ==
    /\ variant = "plain" /\ shared_model /\ pc = "done"
    /\ round = 2
    /\ Occurrences(events, "read") = 2 /\ Occurrences(events, "write") = 2
    /\ Occurrences(events, "initial_design") = 1

====
